---- MODULE Spec2Model ----
(***************************************************************************)
(* Model of bot.py: the handlers skip, handle_wallet_address,              *)
(* view_dashboard and handle_tap, run by concurrent worker threads over    *)
(* ONE psycopg2 connection (conn), ONE cursor (cursor) and ONE lock        *)
(* (db_lock).  Every cursor.execute, cursor.fetchone, conn.commit and      *)
(* conn.rollback is one atomic step; the steps of different handlers       *)
(* interleave wherever db_lock does not exclude it.                        *)
(*                                                                         *)
(* The connection has a single open transaction: db is what its statements *)
(* see (uncommitted writes included), durable is what has been committed.  *)
(* commit copies db to durable, rollback copies durable to db.  A statement*)
(* that raises leaves the transaction aborted (failed) until the next      *)
(* commit or rollback; every execute on an aborted transaction raises, and *)
(* a commit of an aborted transaction is a rollback.                       *)
(***************************************************************************)
EXTENDS Integers, Naturals, Sequences, FiniteSets, TLC

\* ---- program constants (bot.py:39-46) ----
MAX_TAPS_PER_DAY == 10
TAP_REWARD == 1000
INITIAL_MINING_POWER == 100
BONUS_TOKENS == 500000
\* timedelta(days=1) of line 155, in clock units
Day == 1
\* token_balance is BIGINT (line 63), wider than the integers of the model: a
\* row holds token_balance_e9 * Billion + token_balance tokens
Billion == 1000000000
\* TOTAL_MINING_TOKENS = 5000000000000 (line 42), as <<billions, units>>
TOTAL_MINING_TOKENS == <<5000, 0>>

\* ---- bounds of the model ----
\* user ids, and the users that send requests when handlers run concurrently
NumUsers == 2
\* user ids that send requests when handlers run one after the other (SeqSpec)
NumSeqUsers == 1
\* distinct syntactically valid wallet addresses
NumWallets == 1
\* requests handled concurrently (one worker thread each) under Spec
MaxReqs == 2
\* taps rewarded when handlers run one after the other (SeqSpec)
MaxSeqTaps == 11
\* last instant of the clock
MaxTime == 2

Users == 1..NumUsers
Wallets == 1..NumWallets
Procs == 1..MaxReqs
\* SQL NULL in the columns wallet_address, referral_code and referred_by
NULL == 0
\* message texts: 0 is a text Web3.isAddress rejects
Texts == 0..NumWallets

VARIABLES
  db,        \* the open transaction's view of table users: user_id -> row
  durable,   \* the committed table users
  failed,    \* the open transaction is aborted
  cur,       \* the shared cursor: the result of the last execute
  db_lock,   \* 0, or the request holding db_lock
  now,       \* the clock (datetime.utcnow / CURRENT_TIMESTAMP)
  req,       \* per request: handler, arguments, position, locals, reply
  run_async, \* whether the dispatcher runs handlers concurrently
  hist       \* per user: what the replies promised (history, not program state)

vars == <<db, durable, failed, cur, db_lock, now, req, run_async, hist>>

\* ---- rows already in the table when the bot starts (CREATE TABLE IF NOT
\* EXISTS keeps them); referral_code, referred_by and mining_power are
\* written only by flows outside bot.py ----
Seed(u) ==
  IF u = 1
  THEN [wallet_address |-> NULL, taps |-> MAX_TAPS_PER_DAY - 1,
        mining_power |-> INITIAL_MINING_POWER, referral_code |-> 1,
        referred_by |-> 2, referral_count |-> 1, tap_timestamp |-> 0,
        joined_telegram |-> FALSE, followed_twitter |-> FALSE,
        token_balance |-> BONUS_TOKENS + 9 * TAP_REWARD * INITIAL_MINING_POWER,
        token_balance_e9 |-> 0]
  ELSE [wallet_address |-> 1, taps |-> MAX_TAPS_PER_DAY,
        mining_power |-> 2 * INITIAL_MINING_POWER, referral_code |-> 2,
        referred_by |-> 1, referral_count |-> 1, tap_timestamp |-> 0,
        joined_telegram |-> FALSE, followed_twitter |-> FALSE,
        token_balance |-> BONUS_TOKENS + 10 * TAP_REWARD * 2 * INITIAL_MINING_POWER,
        token_balance_e9 |-> 0]

SeedUsers == {1, 2} \cap Users

\* rows of a table whose balances add up to TOTAL_MINING_TOKENS: account 1 has
\* been rewarded 49,999,970 taps of 100,000 tokens on top of BONUS_TOKENS
SupplySeed(u) ==
  IF u = 1
  THEN [Seed(1) EXCEPT !.token_balance_e9 = 4999,
                       !.token_balance = Billion - Seed(2).token_balance]
  ELSE Seed(u)

\* an INSERT that leaves token_balance to the column default
FreshRow_DefaultBalance(balance, t) ==
  [wallet_address |-> NULL, taps |-> 0, mining_power |-> 100,
   referral_code |-> NULL, referred_by |-> NULL, referral_count |-> 0,
   tap_timestamp |-> t, joined_telegram |-> FALSE, followed_twitter |-> FALSE,
   token_balance |-> 0, token_balance_e9 |-> 0]

\* ---- the row INSERT INTO users (user_id, token_balance) creates: the
\* column defaults of CREATE TABLE and the given balance ----
FreshRow(balance, t) ==
  [wallet_address |-> NULL, taps |-> 0, mining_power |-> 100,
   referral_code |-> NULL, referred_by |-> NULL, referral_count |-> 0,
   tap_timestamp |-> t, joined_telegram |-> FALSE, followed_twitter |-> FALSE,
   token_balance |-> balance, token_balance_e9 |-> 0]

\* ---- the shared cursor ----
NoResult == [st |-> "none", sel |-> "-", row |-> <<>>]
EndOfRows == [st |-> "end", sel |-> "-", row |-> <<>>]
OneRow(sel, row) == [st |-> "row", sel |-> sel, row |-> row]

\* SELECT taps, tap_timestamp, mining_power FROM users WHERE user_id = u
SelectUser(store, u) ==
  IF u \in DOMAIN store
  THEN OneRow("user", <<store[u].taps, store[u].tap_timestamp, store[u].mining_power>>)
  ELSE EndOfRows

\* SELECT referred_by FROM users WHERE user_id = u
SelectReferredBy(store, u) ==
  IF u \in DOMAIN store
  THEN OneRow("referred_by", <<store[u].referred_by>>)
  ELSE EndOfRows

\* SELECT wallet_address, mining_power, token_balance, ... WHERE user_id = u
SelectDashboard(store, u) ==
  IF u \in DOMAIN store
  THEN OneRow("dashboard", <<store[u].wallet_address, store[u].mining_power,
                             store[u].token_balance, store[u].referral_count,
                             store[u].joined_telegram, store[u].followed_twitter>>)
  ELSE EndOfRows

\* an INSERT that replaces the row of a user_id already present
InsertUser_Overwrite(store, u, balance, t) ==
  [v \in DOMAIN store \cup {u} |-> IF v = u THEN FreshRow(balance, t) ELSE store[v]]

\* INSERT ... ON CONFLICT (user_id) DO NOTHING
InsertUser(store, u, balance, t) ==
  IF u \in DOMAIN store THEN store ELSE store @@ (u :> FreshRow(balance, t))

\* ---- request records ----
Idle == [op |-> "-", user |-> 0, text |-> 0, pc |-> "idle",
         new_taps |-> 0, current_time |-> 0, new_tokens |-> 0,
         rc_ty |-> "-", rc_v |-> 0, out |-> "none", err |-> FALSE]

NewReq(op, u, w, pc) == [Idle EXCEPT !.op = op, !.user = u, !.text = w, !.pc = pc]

\* a handler that never returns
Finished_Stuck(r, out, err) == r

\* the handler returned (or raised): its locals are gone, its reply stays
Finished(r, out, err) ==
  [Idle EXCEPT !.pc = "done", !.out = out, !.err = err]

NoHist == [reg |-> "absent", ntaps |-> 0, credit |-> 0]

RECURSIVE SumTaps(_)
SumTaps(S) ==
  IF S = {} THEN 0
  ELSE LET u == CHOOSE x \in S : TRUE IN hist[u].ntaps + SumTaps(S \ {u})

\* taps rewarded so far, over all users
TapsRewarded == SumTaps(Users)

Active(p) == req[p].pc \notin {"idle", "done"}

\* ---- initial states ----
InitStore ==
  /\ \E S \in SUBSET SeedUsers : db = [u \in S |-> Seed(u)]
  /\ durable = db
  /\ failed = FALSE
  /\ cur = NoResult
  /\ db_lock = 0
  /\ now = 0
  /\ req = [p \in Procs |-> Idle]
  /\ hist = [u \in Users |->
               IF u \in DOMAIN db THEN [NoHist EXCEPT !.reg = "seeded"] ELSE NoHist]

\* handlers run concurrently, one worker thread per update
Init == InitStore /\ run_async = TRUE

\* handlers run one after the other
SeqInit == InitStore /\ run_async = FALSE

\* handlers run one after the other, on a table that holds up to the whole supply
SupplyInit ==
  /\ \E S \in SUBSET SeedUsers : db = [u \in S |-> SupplySeed(u)]
  /\ durable = db
  /\ failed = FALSE
  /\ cur = NoResult
  /\ db_lock = 0
  /\ now = 0
  /\ req = [p \in Procs |-> Idle]
  /\ hist = [u \in Users |->
               IF u \in DOMAIN db THEN [NoHist EXCEPT !.reg = "seeded"] ELSE NoHist]
  /\ run_async = FALSE

\* the dispatcher hands the next update to a handler (main, lines 190-195):
\* request p starts; when handlers are not concurrent, only after every
\* earlier one has returned
MayStart(p) ==
  IF run_async
  THEN /\ req[p].pc = "idle"
       /\ \A q \in Procs : q < p => req[q].pc # "idle"
  ELSE /\ p = 1
       /\ \A q \in Procs : ~Active(q)

Tick ==
  /\ now < MaxTime
  /\ now' = now + 1
  /\ UNCHANGED <<db, durable, failed, cur, db_lock, req, run_async, hist>>

\* ---- conn.commit() and conn.rollback() ----
Commit ==
  /\ durable' = IF failed THEN durable ELSE db
  /\ db' = IF failed THEN durable ELSE db
  /\ failed' = FALSE

Rollback ==
  /\ db' = durable
  /\ durable' = durable
  /\ failed' = FALSE

\* query.from_user.id / update.message.from_user.id of the update handled next
Senders == IF run_async THEN Users ELSE 1..NumSeqUsers

\* ---- skip (lines 89-100) ----
\* with db_lock: cursor.execute(INSERT ...)
SkipInsert(p) ==
  /\ MayStart(p)
  /\ db_lock = 0
  /\ \E u \in Senders :
       IF failed
       THEN /\ req' = [req EXCEPT ![p] = Finished(NewReq("skip", u, 0, "-"), "none", TRUE)]
            /\ UNCHANGED <<db, cur, db_lock, hist>>
       ELSE /\ db' = InsertUser(db, u, BONUS_TOKENS, now)
            /\ cur' = NoResult
            /\ db_lock' = p
            /\ req' = [req EXCEPT ![p] = NewReq("skip", u, 0, "s_commit")]
            /\ hist' = IF u \in DOMAIN db THEN hist
                       ELSE [hist EXCEPT ![u] = [NoHist EXCEPT !.reg = "fresh"]]
  /\ UNCHANGED <<durable, failed, now, run_async>>

\* conn.commit(); the lock is released; reply
SkipCommit(p) ==
  /\ req[p].pc = "s_commit"
  /\ Commit
  /\ db_lock' = 0
  /\ req' = [req EXCEPT ![p] = Finished(@, "Registered", FALSE)]
  /\ UNCHANGED <<cur, now, run_async, hist>>

\* ---- handle_wallet_address (lines 102-121) ----
\* lines 106-108: not Web3.isAddress(wallet_address)
isAddress(w) == w \in Wallets

BindReject(p) ==
  /\ MayStart(p)
  /\ \E u \in Senders, w \in Texts :
       /\ ~isAddress(w)
       /\ req' = [req EXCEPT ![p] = Finished(NewReq("bind", u, w, "-"), "InvalidAddress", FALSE)]
  /\ UNCHANGED <<db, durable, failed, cur, db_lock, now, run_async, hist>>

\* a column wallet_address without its UNIQUE constraint
UniqueViolation_None(store, u, w) == FALSE

\* wallet_address TEXT UNIQUE: the UPDATE would give u's row a value another row holds
UniqueViolation(store, u, w) ==
  /\ u \in DOMAIN store
  /\ \E v \in DOMAIN store : v # u /\ store[v].wallet_address = w

\* a write of the address that replaces the whole row
SetWallet_Replace(store, u, w) ==
  IF u \in DOMAIN store
  THEN [store EXCEPT ![u] = [FreshRow(0, 0) EXCEPT !.wallet_address = w]]
  ELSE store

\* UPDATE users SET wallet_address = w WHERE user_id = u
SetWallet(store, u, w) ==
  IF u \in DOMAIN store THEN [store EXCEPT ![u].wallet_address = w] ELSE store

\* with db_lock: cursor.execute(UPDATE ...), lines 110-115
BindUpdate(p) ==
  /\ MayStart(p)
  /\ db_lock = 0
  /\ \E u \in Senders, w \in Texts :
       /\ isAddress(w)
       /\ IF failed
          THEN \* InFailedSqlTransaction is no IntegrityError: it propagates
               /\ req' = [req EXCEPT ![p] = Finished(NewReq("bind", u, w, "-"), "none", TRUE)]
               /\ UNCHANGED <<db, failed, cur, db_lock>>
          ELSE IF UniqueViolation(db, u, w)
          THEN /\ failed' = TRUE
               /\ cur' = NoResult
               /\ db_lock' = p
               /\ req' = [req EXCEPT ![p] = NewReq("bind", u, w, "b_rollback")]
               /\ UNCHANGED db
          ELSE /\ db' = SetWallet(db, u, w)
               /\ cur' = NoResult
               /\ db_lock' = p
               /\ req' = [req EXCEPT ![p] = NewReq("bind", u, w, "b_commit")]
               /\ UNCHANGED failed
  /\ UNCHANGED <<durable, now, run_async, hist>>

\* lines 116-117
BindCommit(p) ==
  /\ req[p].pc = "b_commit"
  /\ Commit
  /\ db_lock' = 0
  /\ req' = [req EXCEPT ![p] = Finished(@, "WalletBound", FALSE)]
  /\ UNCHANGED <<cur, now, run_async, hist>>

\* lines 118-121
BindRollback(p) ==
  /\ req[p].pc = "b_rollback"
  /\ Rollback
  /\ db_lock' = 0
  /\ req' = [req EXCEPT ![p] = Finished(@, "DuplicateWallet", FALSE)]
  /\ UNCHANGED <<cur, now, run_async, hist>>

\* ---- view_dashboard (lines 123-142) ----
DashSelect(p) ==
  /\ MayStart(p)
  /\ db_lock = 0
  /\ \E u \in Senders :
       IF failed
       THEN /\ req' = [req EXCEPT ![p] = Finished(NewReq("dashboard", u, 0, "-"), "none", TRUE)]
            /\ UNCHANGED <<cur, db_lock>>
       ELSE /\ cur' = SelectDashboard(db, u)
            /\ db_lock' = p
            /\ req' = [req EXCEPT ![p] = NewReq("dashboard", u, 0, "d_fetch")]
  /\ UNCHANGED <<db, durable, failed, now, run_async, hist>>

\* cursor.fetchone() on the shared cursor: what is left of its result
AfterFetch(c) == IF c.st = "row" THEN EndOfRows ELSE c

\* line 128 under the lock, then lines 130-142
DashFetch(p) ==
  /\ req[p].pc = "d_fetch"
  /\ cur' = AfterFetch(cur)
  /\ db_lock' = 0
  /\ req' = [req EXCEPT ![p] =
       CASE cur.st = "none" -> Finished(@, "none", TRUE)
         [] cur.st = "end" -> Finished(@, "NotRegistered", FALSE)
         [] cur.st = "row" /\ cur.sel = "dashboard" -> Finished(@, "Dashboard", FALSE)
         [] OTHER -> Finished(@, "none", TRUE)]
  /\ UNCHANGED <<db, durable, failed, now, run_async, hist>>

\* ---- handle_tap (lines 144-182) ----
\* a cap compared with <= instead of <
Eligible_OffByOne(taps, tap_timestamp, current_time) ==
  taps <= MAX_TAPS_PER_DAY \/ current_time - tap_timestamp > Day

\* line 155
Eligible(taps, tap_timestamp, current_time) ==
  taps < MAX_TAPS_PER_DAY \/ current_time - tap_timestamp > Day

\* a counter that is never reset
NewTaps_NoReset(taps) == taps + 1

\* line 156
NewTaps(taps) == IF taps < MAX_TAPS_PER_DAY THEN taps + 1 ELSE 1

\* a reward that ignores mining_power
NewTokens_Flat(mining_power) == TAP_REWARD

\* line 157
NewTokens(mining_power) == TAP_REWARD * mining_power

\* a bonus that is the whole reward, not its tenth
ReferrerBonus_Whole(new_tokens) == new_tokens

\* line 169, as the BIGINT column stores it: new_tokens * 0.10, rounded
ReferrerBonus(new_tokens) == (new_tokens * 10 + 50) \div 100

\* an UPDATE that assigns the reward instead of adding it
UpdateTap_Set(store, u, taps, t, n) ==
  IF u \in DOMAIN store
  THEN [store EXCEPT ![u] = [@ EXCEPT !.taps = taps, !.tap_timestamp = t,
                                      !.token_balance = n]]
  ELSE store

\* UPDATE users SET taps, tap_timestamp, token_balance = token_balance + n WHERE user_id = u
UpdateTap(store, u, taps, t, n) ==
  IF u \in DOMAIN store
  THEN [store EXCEPT ![u] = [@ EXCEPT !.taps = taps, !.tap_timestamp = t,
                                      !.token_balance = @ + n]]
  ELSE store

\* the rows WHERE referral_code = code selects, for a text parameter
Referrers(store, code) == {v \in DOMAIN store : store[v].referral_code = code}

\* UPDATE users SET token_balance = token_balance + n WHERE referral_code = code
CreditReferrer(store, code, n) ==
  [v \in DOMAIN store |->
     IF v \in Referrers(store, code)
     THEN [store[v] EXCEPT !.token_balance = @ + n] ELSE store[v]]

\* with db_lock: cursor.execute(SELECT taps, ...), lines 147-148
TapSelect(p) ==
  /\ MayStart(p)
  /\ run_async \/ TapsRewarded < MaxSeqTaps
  /\ db_lock = 0
  /\ \E u \in Senders :
       IF failed
       THEN /\ req' = [req EXCEPT ![p] = Finished(NewReq("tap", u, 0, "-"), "none", TRUE)]
            /\ UNCHANGED <<cur, db_lock>>
       ELSE /\ cur' = SelectUser(db, u)
            /\ db_lock' = p
            /\ req' = [req EXCEPT ![p] = NewReq("tap", u, 0, "t_fetch")]
  /\ UNCHANGED <<db, durable, failed, now, run_async, hist>>

\* line 149 under the lock, then lines 151-157 and the replies of 177 and 181
TapFetch(p) ==
  /\ req[p].pc = "t_fetch"
  /\ cur' = AfterFetch(cur)
  /\ db_lock' = 0
  /\ req' = [req EXCEPT ![p] =
       CASE cur.st = "none" -> Finished(@, "none", TRUE)
         [] cur.st = "end" -> Finished(@, "NotRegistered", FALSE)
         [] cur.st = "row" /\ cur.sel = "user" ->
              IF Eligible(cur.row[1], cur.row[2], now)
              THEN [@ EXCEPT !.pc = "t_update", !.new_taps = NewTaps(cur.row[1]),
                             !.current_time = now, !.new_tokens = NewTokens(cur.row[3])]
              ELSE Finished(@, "DailyLimitReached", FALSE)
         [] OTHER -> Finished(@, "none", TRUE)]
  /\ UNCHANGED <<db, durable, failed, now, run_async, hist>>

\* lines 159-160, outside the lock
TapUpdate(p) ==
  /\ req[p].pc = "t_update"
  /\ IF failed
     THEN /\ req' = [req EXCEPT ![p] = Finished(@, "none", TRUE)]
          /\ UNCHANGED <<db, cur>>
     ELSE /\ db' = UpdateTap(db, req[p].user, req[p].new_taps, req[p].current_time,
                             req[p].new_tokens)
          /\ cur' = NoResult
          /\ req' = [req EXCEPT ![p].pc = "t_commit"]
  /\ UNCHANGED <<durable, failed, db_lock, now, run_async, hist>>

\* a tap whose UPDATE is left to the commit of line 173
TapCommit_Deferred(p) ==
  /\ req[p].pc = "t_commit"
  /\ req' = [req EXCEPT ![p].pc = "t_refselect", ![p].out = "Tapped"]
  /\ hist' = [hist EXCEPT ![req[p].user].ntaps = @ + 1]
  /\ UNCHANGED <<db, durable, failed, cur, db_lock, now, run_async>>

\* lines 161-162: conn.commit() and the reply "Tapped! You received ..."
TapCommit(p) ==
  /\ req[p].pc = "t_commit"
  /\ Commit
  /\ req' = [req EXCEPT ![p].pc = "t_refselect", ![p].out = "Tapped"]
  /\ hist' = [hist EXCEPT ![req[p].user].ntaps = @ + 1]
  /\ UNCHANGED <<cur, db_lock, now, run_async>>

\* line 165
TapRefSelect(p) ==
  /\ req[p].pc = "t_refselect"
  /\ IF failed
     THEN /\ req' = [req EXCEPT ![p] = Finished(@, "Tapped", TRUE)]
          /\ UNCHANGED cur
     ELSE /\ cur' = SelectReferredBy(db, req[p].user)
          /\ req' = [req EXCEPT ![p].pc = "t_reffetch"]
  /\ UNCHANGED <<db, durable, failed, db_lock, now, run_async, hist>>

\* referrer[0] of the row fetchone returned, by the query that produced the
\* row: referred_by (text), taps (integer) or wallet_address (text)
FirstColumnType(sel) ==
  CASE sel = "referred_by" -> "text"
    [] sel = "user" -> "int"
    [] OTHER -> "wallet"

\* lines 166-169
TapRefFetch(p) ==
  /\ req[p].pc = "t_reffetch"
  /\ cur' = AfterFetch(cur)
  /\ req' = [req EXCEPT ![p] =
       CASE cur.st = "none" -> Finished(@, "Tapped", TRUE)
         [] cur.st = "end" -> Finished(@, "Tapped", FALSE)
         [] OTHER ->
              IF cur.row[1] # 0
              THEN [@ EXCEPT !.pc = "t_refupdate", !.rc_ty = FirstColumnType(cur.sel),
                             !.rc_v = cur.row[1]]
              ELSE Finished(@, "Tapped", FALSE)]
  /\ UNCHANGED <<db, durable, failed, db_lock, now, run_async, hist>>

\* lines 171-172
TapRefUpdate(p) ==
  /\ req[p].pc = "t_refupdate"
  /\ IF failed
     THEN /\ req' = [req EXCEPT ![p] = Finished(@, "Tapped", TRUE)]
          /\ UNCHANGED <<db, failed, cur, hist>>
     ELSE IF req[p].rc_ty = "int"
     THEN \* referral_code = <integer>: no such operator, the statement raises
          /\ failed' = TRUE
          /\ cur' = NoResult
          /\ req' = [req EXCEPT ![p] = Finished(@, "Tapped", TRUE)]
          /\ UNCHANGED <<db, hist>>
     ELSE LET code == IF req[p].rc_ty = "text" THEN req[p].rc_v ELSE NULL
              n == ReferrerBonus(req[p].new_tokens)
          IN /\ db' = CreditReferrer(db, code, n)
             /\ hist' = [v \in Users |->
                           IF v \in Referrers(db, code)
                           THEN [hist[v] EXCEPT !.credit = @ + n] ELSE hist[v]]
             /\ cur' = NoResult
             /\ req' = [req EXCEPT ![p].pc = "t_refcommit"]
             /\ UNCHANGED failed
  /\ UNCHANGED <<durable, db_lock, now, run_async>>

\* lines 173-174
TapRefCommit(p) ==
  /\ req[p].pc = "t_refcommit"
  /\ Commit
  /\ req' = [req EXCEPT ![p] = Finished(@, "Tapped", FALSE)]
  /\ UNCHANGED <<cur, db_lock, now, run_async, hist>>

\* ---- the program ----
Next ==
  \/ Tick
  \/ \E p \in Procs : SkipInsert(p)
  \/ \E p \in Procs : SkipCommit(p)
  \/ \E p \in Procs : BindReject(p)
  \/ \E p \in Procs : BindUpdate(p)
  \/ \E p \in Procs : BindCommit(p)
  \/ \E p \in Procs : BindRollback(p)
  \/ \E p \in Procs : DashSelect(p)
  \/ \E p \in Procs : DashFetch(p)
  \/ \E p \in Procs : TapSelect(p)
  \/ \E p \in Procs : TapFetch(p)
  \/ \E p \in Procs : TapUpdate(p)
  \/ \E p \in Procs : TapCommit(p)
  \/ \E p \in Procs : TapRefSelect(p)
  \/ \E p \in Procs : TapRefFetch(p)
  \/ \E p \in Procs : TapRefUpdate(p)
  \/ \E p \in Procs : TapRefCommit(p)

\* handlers run concurrently
Spec == Init /\ [][Next]_vars

\* handlers run one at a time
SeqSpec == SeqInit /\ [][Next]_vars

\* a statement of request p after its first: its thread is scheduled
Continue(p) ==
  \/ SkipCommit(p) \/ BindCommit(p) \/ BindRollback(p) \/ DashFetch(p)
  \/ TapFetch(p) \/ TapUpdate(p) \/ TapCommit(p)
  \/ TapRefSelect(p) \/ TapRefFetch(p) \/ TapRefUpdate(p) \/ TapRefCommit(p)

\* handlers run concurrently and no started thread is left unscheduled forever
FairSpec == Init /\ [][Next]_vars /\ \A p \in Procs : WF_vars(Continue(p))

\* handlers run one at a time, on a table that holds up to the whole supply
SupplySpec == SupplyInit /\ [][Next]_vars

\* ---- shared definitions of the properties ----
\* no handler is running
Quiescent == \A p \in Procs : ~Active(p)

\* the balance the account of u had when it entered this run
BaseBalance(u) ==
  IF hist[u].reg = "seeded" THEN Seed(u).token_balance ELSE BONUS_TOKENS

\* request p has loaded a snapshot of its account and has not yet committed
\* the update computed from it
InFlight(p) == req[p].pc \in {"t_update", "t_commit", "s_commit", "b_commit", "b_rollback"}

TapSelectStep(p) == req[p].pc # "t_fetch" /\ req'[p].pc = "t_fetch"

\* request p's handle_tap fetches its snapshot and decides in this step
TapFetchStep(p) == req[p].pc = "t_fetch" /\ req'[p].pc # "t_fetch"

\* C5: handlers run one at a time; a tap for a user_id without account is
\* answered NotRegistered, a tap for an account with taps >= MAX_TAPS_PER_DAY
\* and now - tap_timestamp <= Day is answered DailyLimitReached, and no step of
\* a tap answered in either way changes a row, committed or not; no handler
\* ends by raising.
C5_RejectedTapMutatesNothing ==
  [][\A p \in Procs :
       /\ ~req'[p].err
       /\ TapSelectStep(p) => (db' = db /\ durable' = durable)
       /\ TapFetchStep(p) =>
            LET u == req[p].user IN
            /\ u \notin DOMAIN db =>
                 (req'[p].pc = "done" /\ req'[p].out = "NotRegistered")
            /\ (/\ u \in DOMAIN db
                /\ db[u].taps >= MAX_TAPS_PER_DAY
                /\ now - db[u].tap_timestamp <= Day) =>
                 (req'[p].pc = "done" /\ req'[p].out = "DailyLimitReached")
            /\ req'[p].out \in {"NotRegistered", "DailyLimitReached"} =>
                 (db' = db /\ durable' = durable /\ DOMAIN db' = DOMAIN db)]_vars

\* the 11th tap of a fresh account within its window has been rejected
C5_EleventhTapRejected ==
  \E p \in Procs, u \in DOMAIN durable :
    /\ req[p].out = "DailyLimitReached"
    /\ hist[u].reg = "fresh" /\ hist[u].ntaps = MAX_TAPS_PER_DAY
    /\ durable[u].taps = MAX_TAPS_PER_DAY

\* ---- C6 ----
\* C6: handlers run one at a time; a tap for an account with taps =
\* MAX_TAPS_PER_DAY whose tap_timestamp is more than Day before now is admitted,
\* its UPDATE sets taps to 1, tap_timestamp to now (as read at admission) and
\* adds TAP_REWARD * mining_power to token_balance, and its commit makes that
\* durable and answers Tapped; no handler ends by raising.
C6_WindowRollover ==
  [][\A p \in Procs :
       /\ ~req'[p].err
       /\ TapFetchStep(p) =>
            LET u == req[p].user IN
            (/\ u \in DOMAIN db
             /\ db[u].taps = MAX_TAPS_PER_DAY
             /\ now - db[u].tap_timestamp > Day) =>
               /\ req'[p].pc = "t_update"
               /\ req'[p].new_taps = 1
               /\ req'[p].current_time = now
               /\ req'[p].new_tokens = TAP_REWARD * db[u].mining_power
       /\ (req[p].pc = "t_update" /\ req'[p].pc # "t_update") =>
            LET u == req[p].user IN
            /\ req'[p].pc = "t_commit"
            /\ db' = [db EXCEPT ![u] =
                        [@ EXCEPT !.taps = req[p].new_taps,
                                  !.tap_timestamp = req[p].current_time,
                                  !.token_balance = @ + req[p].new_tokens]]
       /\ (req[p].pc = "t_commit" /\ req'[p].pc # "t_commit") =>
            (durable' = db /\ req'[p].out = "Tapped")]_vars

\* a seeded account went 9 -> 10 -> (window expired) -> 1
C6_RolledOver ==
  \E u \in DOMAIN durable :
    /\ hist[u].reg = "seeded" /\ Seed(u).taps = MAX_TAPS_PER_DAY - 1
    /\ hist[u].ntaps = 2
    /\ durable[u].taps = 1
    /\ durable[u].tap_timestamp > Day
    /\ durable[u].token_balance = Seed(u).token_balance + 2 * TAP_REWARD * durable[u].mining_power

\* ---- C7 ----
\* C7: handlers run one at a time; a tap that has been admitted sets taps to 1
\* when the window has expired (now - tap_timestamp > Day), whatever taps was,
\* and to taps + 1 otherwise.
C7_ExpiredWindowResets ==
  \A p \in Procs :
    req[p].pc = "t_update" =>
      LET u == req[p].user IN
      u \in DOMAIN db =>
        req[p].new_taps =
          IF req[p].current_time - db[u].tap_timestamp > Day
          THEN 1 ELSE db[u].taps + 1

\* ---- C8 ----
\* request p's skip executes its INSERT in this step
SkipInsertStep(p) == req[p].pc # "s_commit" /\ req'[p].pc = "s_commit"

\* C8: in every interleaving, the INSERT of a register/skip for a user_id that
\* already has a row changes no row, committed or not: the account stays the
\* one account of that user_id, with every field as it was.
C8_RegisterIdempotent ==
  [][\A p \in Procs :
       (SkipInsertStep(p) /\ req'[p].user \in DOMAIN db) =>
         (db' = db /\ durable' = durable)]_vars

\* a second register/skip for the only account, which a first one created, has
\* executed its INSERT
C8_SecondRegister ==
  \E p, q \in Procs, u \in DOMAIN durable :
    /\ p # q
    /\ req[q].out = "Registered"
    /\ req[p].op = "skip" /\ req[p].pc = "s_commit" /\ req[p].user = u
    /\ hist[u].reg = "fresh"
    /\ \A v \in Users \ {u} : hist[v].reg = "absent"
    /\ durable[u].token_balance = BONUS_TOKENS

\* ---- C9 ----
\* C9: handlers run one at a time; the INSERT of a register/skip for a user_id
\* without a row adds a row with token_balance = BONUS_TOKENS, mining_power =
\* INITIAL_MINING_POWER, taps = 0 and wallet_address NULL and changes no other
\* row, and its commit makes that durable and answers Registered; no handler
\* ends by raising.
C9_RegisterCreates ==
  [][\A p \in Procs :
       /\ ~req'[p].err
       /\ (SkipInsertStep(p) /\ req'[p].user \notin DOMAIN db) =>
            LET u == req'[p].user IN
            /\ DOMAIN db' = DOMAIN db \cup {u}
            /\ db'[u].token_balance = BONUS_TOKENS
            /\ db'[u].mining_power = INITIAL_MINING_POWER
            /\ db'[u].taps = 0
            /\ db'[u].wallet_address = NULL
            /\ \A v \in DOMAIN db : db'[v] = db[v]
       /\ (req[p].pc = "s_commit" /\ req'[p].pc # "s_commit") =>
            (durable' = db /\ req'[p].out = "Registered")]_vars

\* a register/skip has returned and left a new account
C9_Registered ==
  \E p \in Procs, u \in DOMAIN durable :
    /\ req[p].out = "Registered"
    /\ hist[u].reg = "fresh" /\ hist[u].ntaps = 0
    /\ durable[u].token_balance = BONUS_TOKENS
    /\ durable[u].wallet_address = NULL

\* ---- C10 ----
\* request p's handle_wallet_address executes its UPDATE in this step
BindUpdateStep(p) ==
  req[p].pc \notin {"b_commit", "b_rollback"} /\ req'[p].pc \in {"b_commit", "b_rollback"}

\* C10: handlers run one at a time; a bind by account A of an address another
\* account B holds raises, is rolled back and answered DuplicateWallet, and no
\* step of it changes a row, committed or not; no handler ends by raising.
C10_DuplicateWalletRejected ==
  [][\A p \in Procs :
       /\ ~req'[p].err
       /\ BindUpdateStep(p) =>
            LET u == req'[p].user
                w == req'[p].text IN
            (/\ u \in DOMAIN db
             /\ \E v \in DOMAIN db : v # u /\ db[v].wallet_address = w) =>
               (req'[p].pc = "b_rollback" /\ db' = db /\ durable' = durable)
       /\ (req[p].pc = "b_rollback" /\ req'[p].pc # "b_rollback") =>
            (req'[p].out = "DuplicateWallet" /\ db' = db /\ durable' = durable)]_vars

\* a bind has been answered DuplicateWallet
C10_Rejected ==
  \E p \in Procs : req[p].out = "DuplicateWallet"

\* ---- C11 ----
\* C11: handlers run one at a time; a bind of a valid address for a user_id
\* without account changes no row, committed or not, and is answered NotFound
\* or NotRegistered, never WalletBound.
C11_BindWithoutAccount ==
  [][\A p \in Procs :
       /\ (BindUpdateStep(p) /\ req'[p].user \notin DOMAIN db) =>
            (db' = db /\ durable' = durable)
       /\ (/\ req[p].pc \in {"b_commit", "b_rollback"}
           /\ req'[p].pc \notin {"b_commit", "b_rollback"}
           /\ req[p].user \notin DOMAIN db) =>
            /\ req'[p].out \in {"NotFound", "NotRegistered"}
            /\ db' = db /\ durable' = durable]_vars

\* ---- C12 ----
\* request p's handle_tap executes the referrer's UPDATE in this step
TapRefUpdateStep(p) == req[p].pc = "t_refupdate" /\ req'[p].pc # "t_refupdate"

\* the accounts whose referral_code is the referred_by of account u
ReferrersOf(store, u) ==
  {v \in DOMAIN store :
     store[u].referred_by # NULL /\ store[v].referral_code = store[u].referred_by}

\* C12: handlers run one at a time; after the tap of an account u with reward
\* R = TAP_REWARD * mining_power whose referred_by is the referral_code of an
\* account v, the handler goes on to the referrer's UPDATE, which adds exactly
\* R / 10 = 100 * mining_power of u to v's token_balance and changes nothing
\* else in any row (v's taps and tap_timestamp included), and the commit makes
\* that durable; no handler ends by raising.
C12_ReferrerCredited ==
  [][\A p \in Procs :
       /\ ~req'[p].err
       /\ (req[p].pc = "t_refselect" /\ req'[p].pc # "t_refselect") =>
            req'[p].pc = "t_reffetch"
       /\ (req[p].pc = "t_reffetch" /\ req'[p].pc # "t_reffetch") =>
            (ReferrersOf(db, req[p].user) # {} => req'[p].pc = "t_refupdate")
       /\ TapRefUpdateStep(p) =>
            LET u == req[p].user
                R == TAP_REWARD * db[u].mining_power IN
            /\ req[p].new_tokens = R
            /\ R = 10 * (100 * db[u].mining_power)
            /\ req'[p].pc = "t_refcommit"
            /\ DOMAIN db' = DOMAIN db
            /\ \A v \in DOMAIN db :
                 db'[v] = IF v \in ReferrersOf(db, u)
                          THEN [db[v] EXCEPT !.token_balance = @ + 100 * db[u].mining_power]
                          ELSE db[v]
       /\ (req[p].pc = "t_refcommit" /\ req'[p].pc # "t_refcommit") =>
            durable' = db]_vars

\* the tap of seeded account 1 (mining_power 100, referred_by the code of
\* account 2) has returned and account 2 holds 10,000 more
C12_Credited ==
  /\ Quiescent
  /\ DOMAIN durable = {1, 2}
  /\ hist[1].reg = "seeded" /\ hist[2].reg = "seeded"
  /\ hist[1].ntaps = 1 /\ hist[2].ntaps = 0
  /\ durable[2].token_balance = Seed(2).token_balance + 10000
  /\ durable[2].taps = Seed(2).taps
  /\ durable[2].tap_timestamp = Seed(2).tap_timestamp

\* ---- C13 ----
\* request p's handle_tap is past its own commit, in the referrer's part
InCredit(p) == req[p].pc \in {"t_refselect", "t_reffetch", "t_refupdate", "t_refcommit"}

\* C13: handlers run one at a time; the UPDATE of a tap changes the tapping
\* account's row only, its commit makes taps, tap_timestamp and the reward
\* durable before the referrer's part starts, no step of the referrer's part
\* takes them back, and when referred_by resolves to no account no step of the
\* referrer's part changes any row; no handler ends by raising.
C13_TapCommittedBeforeCredit ==
  [][\A p \in Procs :
       /\ ~req'[p].err
       /\ (req[p].pc = "t_update" /\ req'[p].pc # "t_update") =>
            (durable' = durable /\
             \A v \in DOMAIN db : v # req[p].user => db'[v] = db[v])
       /\ (req[p].pc = "t_commit" /\ req'[p].pc # "t_commit") =>
            LET u == req[p].user IN
            /\ req'[p].pc = "t_refselect"
            /\ durable' = [durable EXCEPT ![u] =
                 [@ EXCEPT !.taps = req[p].new_taps,
                           !.tap_timestamp = req[p].current_time,
                           !.token_balance = @ + req[p].new_tokens]]
       /\ InCredit(p) =>
            LET u == req[p].user IN
            /\ durable[u].taps = req[p].new_taps
            /\ durable[u].tap_timestamp = req[p].current_time
            /\ durable'[u].taps = durable[u].taps
            /\ durable'[u].tap_timestamp = durable[u].tap_timestamp
            /\ durable'[u].token_balance >= durable[u].token_balance
            /\ ReferrersOf(db, u) = {} => (db' = db /\ durable' = durable)]_vars

\* the tap of account 1, whose referred_by names no account, has returned; the
\* tap is committed and there is no other account
C13_NoReferrer ==
  /\ Quiescent
  /\ DOMAIN durable = {1}
  /\ hist[1].reg = "seeded" /\ hist[1].ntaps = 1
  /\ durable[1].referred_by # NULL
  /\ durable[1].taps = Seed(1).taps + 1
  /\ durable[1].token_balance = Seed(1).token_balance + TAP_REWARD * durable[1].mining_power
  /\ \E p \in Procs : req[p].out = "Tapped" /\ ~req[p].err

\* ---- C14 ----
\* no two rows of the table hold the same non-null wallet_address
WalletsUnique(store) ==
  \A u, v \in DOMAIN store :
    (u # v /\ store[u].wallet_address # NULL) =>
      store[u].wallet_address # store[v].wallet_address

\* C14: in every interleaving of register, bind and tap requests, no two
\* accounts hold the same non-null wallet_address, in the committed table and
\* in the open transaction, and the table has at most one row per user_id: its
\* user_ids are distinct ids of senders.
C14_Uniqueness ==
  /\ WalletsUnique(durable)
  /\ WalletsUnique(db)
  /\ DOMAIN durable \subseteq Users
  /\ DOMAIN db \subseteq Users

\* two binds of the same address have returned, one accepted and one rejected,
\* and of the two accounts one holds the address
C14_OneHolder ==
  /\ \E p \in Procs : req[p].out = "WalletBound"
  /\ \E p \in Procs : req[p].out = "DuplicateWallet"
  /\ \E u, v \in DOMAIN durable :
       /\ u # v
       /\ durable[u].wallet_address = NULL
       /\ durable[v].wallet_address # NULL

\* ---- C15 ----
\* C15: in every interleaving, concurrent taps of one account included, every
\* committed row has 0 <= taps <= MAX_TAPS_PER_DAY.
C15_TapsInRange ==
  \A u \in DOMAIN durable :
    durable[u].taps >= 0 /\ durable[u].taps <= MAX_TAPS_PER_DAY

\* two concurrent taps of the account that started at MAX_TAPS_PER_DAY - 1 were
\* both rewarded within the window, and its committed taps is MAX_TAPS_PER_DAY
C15_TwoTapsAtCap ==
  \E u \in DOMAIN durable :
    /\ Quiescent
    /\ hist[u].reg = "seeded" /\ Seed(u).taps = MAX_TAPS_PER_DAY - 1
    /\ now <= Day
    /\ hist[u].ntaps = 2
    /\ durable[u].taps = MAX_TAPS_PER_DAY

\* ---- C16 ----
\* C16: in every interleaving, every committed token_balance is >= 0, and no
\* step of any request removes a committed row or lowers its token_balance.
C16_BalanceMonotone ==
  /\ [](\A u \in DOMAIN durable : durable[u].token_balance >= 0)
  /\ [][\A u \in DOMAIN durable :
          /\ u \in DOMAIN durable'
          /\ durable'[u].token_balance >= durable[u].token_balance]_vars

\* committed balances have grown by a tap's reward and by a referral credit
C16_Grown ==
  \E u, v \in DOMAIN durable :
    /\ u # v
    /\ hist[u].ntaps >= 1 /\ hist[v].credit > 0
    /\ durable[u].token_balance > BaseBalance(u)
    /\ durable[v].token_balance > BaseBalance(v)

\* ---- C17 ----
\* the positions inside a "with db_lock:" block
UnderLock == {"s_commit", "b_commit", "b_rollback", "d_fetch", "t_fetch"}

\* C17: threads are scheduled fairly; db_lock is held exactly by the request
\* inside a "with db_lock:" block, a request takes it only when it is free and
\* the request holds nothing, every holder releases it, and every request that
\* has started returns, in every interleaving.
C17_NoDeadlock ==
  /\ [](\A p \in Procs : (db_lock = p) <=> (req[p].pc \in UnderLock))
  /\ [][\A p \in Procs :
          (db_lock' = p /\ db_lock # p) => (db_lock = 0 /\ req[p].pc \notin UnderLock)]_vars
  /\ \A p \in Procs : (db_lock = p) ~> (db_lock # p)
  /\ \A p \in Procs : Active(p) ~> (req[p].pc = "done")

\* two accounts that refer to each other tap concurrently: both handlers are
\* about to credit the other's account
C17_MutualReferrersTap ==
  \E p, q \in Procs :
    /\ p # q
    /\ req[p].op = "tap" /\ req[q].op = "tap"
    /\ req[p].pc = "t_refupdate" /\ req[q].pc = "t_refupdate"
    /\ req[p].user # req[q].user
    /\ req[p].user \in ReferrersOf(db, req[q].user)
    /\ req[q].user \in ReferrersOf(db, req[p].user)

\* ---- C18 ----
\* C18: handlers run one at a time; the UPDATE of a bind that is accepted sets
\* wallet_address of the sender's row to the address sent and changes no other
\* field of it and no other row, and its commit makes exactly that durable and
\* answers WalletBound; no handler ends by raising.
C18_BindFrame ==
  [][\A p \in Procs :
       /\ ~req'[p].err
       /\ (BindUpdateStep(p) /\ req'[p].pc = "b_commit") =>
            LET u == req'[p].user
                w == req'[p].text IN
            /\ durable' = durable
            /\ DOMAIN db' = DOMAIN db
            /\ \A v \in DOMAIN db :
                 db'[v] = IF v = u THEN [db[v] EXCEPT !.wallet_address = w] ELSE db[v]
       /\ (req[p].pc = "b_commit" /\ req'[p].pc # "b_commit") =>
            LET u == req[p].user
                w == req[p].text IN
            /\ req'[p].out = "WalletBound"
            /\ db' = db
            /\ DOMAIN durable' = DOMAIN durable
            /\ \A v \in DOMAIN durable :
                 durable'[v] = IF v = u THEN [durable[v] EXCEPT !.wallet_address = w]
                               ELSE durable[v]]_vars

\* the seeded account 1, which had no address, has bound one after a tap; all
\* its other fields are what the tap left
C18_Bound ==
  /\ Quiescent
  /\ \E p \in Procs : req[p].out = "WalletBound"
  /\ 1 \in DOMAIN durable
  /\ hist[1].reg = "seeded" /\ hist[1].ntaps = 1
  /\ durable[1] = [Seed(1) EXCEPT !.wallet_address = 1,
                                  !.taps = Seed(1).taps + 1,
                                  !.tap_timestamp = durable[1].tap_timestamp,
                                  !.token_balance = @ + TAP_REWARD * Seed(1).mining_power]

\* ---- C19 ----
\* the sum of token_balance over the rows S of a table, as <<billions, units>>
\* with units < Billion
RECURSIVE SumBalances(_, _)
SumBalances(store, S) ==
  IF S = {} THEN <<0, 0>>
  ELSE LET u == CHOOSE x \in S : TRUE
           rest == SumBalances(store, S \ {u})
           units == rest[2] + store[u].token_balance IN
       <<rest[1] + store[u].token_balance_e9 + units \div Billion, units % Billion>>

\* a <= b for amounts written <<billions, units>>
AtMost(a, b) == a[1] < b[1] \/ (a[1] = b[1] /\ a[2] <= b[2])

\* C19: in every reachable state the sum of the committed token_balance over
\* all accounts is at most TOTAL_MINING_TOKENS.
C19_SupplyCapped ==
  AtMost(SumBalances(durable, DOMAIN durable), TOTAL_MINING_TOKENS)

====
